---- MODULE Spec2Model ----
(***************************************************************************)
(* A model of the LISA pytest plugin (conftest.py): the criteria-based     *)
(* test selection of pytest_collection_modifyitems, and the session pool   *)
(* of targets with the per-test `target` fixture.                          *)
(***************************************************************************)
EXTENDS Integers, Sequences, FiniteSets, TLC

\* ------------------------------------------------------------------ bounds
MaxItems == 2
MaxCriteria == 2
MaxTimes == 2
MaxTests == 3

\* ------------------------------------------------------- strings and None
\* A Python str is a sequence of one-character strings; None is a value of
\* its own.  Both None and the empty value are falsy.
NoneStr == <<"None">>
NoneTags == {"None"}

TruthyStr(x) == x # NoneStr /\ x # <<>>
TruthyTags(x) == x # NoneTags /\ x # {}

Lower(ch) ==
    CASE ch = "A" -> "a"
      [] ch = "B" -> "b"
      [] ch = "D" -> "d"
      [] ch = "E" -> "e"
      [] ch = "F" -> "f"
      [] ch = "N" -> "n"
      [] ch = "T" -> "t"
      [] OTHER -> ch

casefold(s) == [k \in DOMAIN s |-> Lower(s[k])]

\* Python's `a in b` on two strings.
IsSubstring(a, b) ==
    \E k \in 0..(Len(b) - Len(a)) : SubSeq(b, k + 1, k + Len(a)) = a

\* --------------------------------------------------------------- test items
\* What a discovered test carries apart from its identity: its name, whether
\* it has a `lisa` marker, what lisa.validate does on it, and the marker's
\* keyword arguments.
ItemKinds ==
    { [name |-> <<"f", "l">>, marked |-> FALSE, valid |-> "ok",
       area |-> NoneStr, category |-> NoneStr, priority |-> NoneStr,
       tags |-> {}],
      [name |-> <<"a", "b">>, marked |-> TRUE, valid |-> "ok",
       area |-> <<"N", "e", "t">>, category |-> <<"f">>, priority |-> <<"1">>,
       tags |-> {"slow"}],
      [name |-> <<"b">>, marked |-> TRUE, valid |-> "ok",
       area |-> <<"d", "s", "k">>, category |-> <<"F">>, priority |-> <<"2">>,
       tags |-> {}],
      [name |-> <<"x">>, marked |-> TRUE, valid |-> "SchemaMissingKeyError",
       area |-> <<"n", "e", "t">>, category |-> <<"f">>, priority |-> NoneStr,
       tags |-> {}],
      [name |-> <<"y">>, marked |-> TRUE, valid |-> "SchemaError",
       area |-> <<"n", "e", "t">>, category |-> <<"f">>, priority |-> <<"1">>,
       tags |-> {"slow"}] }

\* An Item is an object: two items are equal iff they are the same object.
MkItem(n, k) ==
    [id |-> n, name |-> k.name, marked |-> k.marked, valid |-> k.valid,
     area |-> k.area, category |-> k.category, priority |-> k.priority,
     tags |-> k.tags]

ItemLists ==
    UNION { { [n \in 1..len |-> MkItem(n, f[n])] : f \in [1..len -> ItemKinds] }
            : len \in 0..MaxItems }

\* ----------------------------------------------------------------- criteria
\* The match fields of a criterion of the playbook.
CritKinds ==
    { [name |-> <<>>, area |-> NoneStr, category |-> NoneStr,
       priority |-> NoneStr, tags |-> {}],
      [name |-> <<"b">>, area |-> NoneStr, category |-> <<"x">>,
       priority |-> NoneStr, tags |-> NoneTags],
      [name |-> NoneStr, area |-> <<"N", "E", "T">>, category |-> NoneStr,
       priority |-> <<"9">>, tags |-> {"slow"}] }

TimesSet == 0..MaxTimes

Criteria ==
    { [name |-> k.name, area |-> k.area, category |-> k.category,
       priority |-> k.priority, tags |-> k.tags, times |-> t, exclude |-> e]
      : k \in CritKinds, t \in TimesSet, e \in BOOLEAN }

CriteriaLists == UNION { [1..len -> Criteria] : len \in 0..MaxCriteria }

\* ---------------------------------------------------------------- variables
VARIABLES
    items,      \* the list `items` of the hook, modified in place
    orig,       \* the discovered tests, as handed to the hook
    criteria,   \* book["criteria"]
    included,   \* the list `included`
    excluded,   \* the list `excluded`
    ci,         \* the number of criteria processed
    spc,        \* where the hook is
    diag        \* the id of the test named by the diagnostic, 0 if none

svars == <<items, orig, criteria, included, excluded, ci, spc, diag>>

VARIABLES
    pool,       \* the list `targets` of the session fixture `pool`
    ppc,        \* where the session is
    req,        \* request.param and the marker's features, of the current test
    cur,        \* the position in the pool of the target the fixture yielded
    err,        \* what the last set-up of the fixture raised
    outcome,    \* how the last test ended
    last,       \* the previous resolved request, its target and the pool length
    keep,       \* the option --keep-vms
    nrun,       \* the number of tests that asked for the fixture so far
    tdi         \* the position of the loop of the pool's teardown

pvars == <<pool, ppc, req, cur, err, outcome, last, keep, nrun, tdi>>

VARIABLES
    path,       \* the option --playbook
    file,       \* the validated document of the playbook file
    TARGETS,    \* the module's list TARGETS
    TARGET_IDS, \* the module's list TARGET_IDS
    funcs,      \* the test functions pytest discovers
    gi,         \* the number of test functions parametrized so far
    gerr        \* the positions of the functions whose parametrization raised

gvars == <<path, file, TARGETS, TARGET_IDS, funcs, gi, gerr>>

VARIABLES
    thr         \* for each thread resolving a target, where it is and its locals

VARIABLES
    mc,         \* a criterion
    mitem,      \* a test with a marker
    mres        \* what the any([...]) of the hook gave for them

mvars == <<mc, mitem, mres>>

vars == <<svars, pvars, gvars, thr, mvars>>

\* All the variables but those of the hook, and all but those of the fixtures.
notS == <<pvars, gvars, thr, mvars>>
notP == <<svars, gvars, thr, mvars>>

\* ------------------------------------------------------- sequence helpers
RECURSIVE Count(_, _)
Count(s, x) ==
    IF s = <<>> THEN 0
    ELSE (IF Head(s) = x THEN 1 ELSE 0) + Count(Tail(s), x)

InSeq(x, s) == \E k \in DOMAIN s : s[k] = x

RECURSIVE Repeat(_, _)
Repeat(x, n) == IF n <= 0 THEN <<>> ELSE <<x>> \o Repeat(x, n - 1)

\* A filter that builds its result back to front.
RECURSIVE FilterOut_reversed(_, _)
FilterOut_reversed(s, ex) ==
    IF s = <<>> THEN <<>>
    ELSE FilterOut_reversed(Tail(s), ex)
         \o (IF InSeq(Head(s), ex) THEN <<>> ELSE <<Head(s)>>)

\* The list comprehension [i for i in s if i not in ex].
RECURSIVE FilterOut(_, _)
FilterOut(s, ex) ==
    IF s = <<>> THEN <<>>
    ELSE (IF InSeq(Head(s), ex) THEN <<>> ELSE <<Head(s)>>)
         \o FilterOut(Tail(s), ex)

\* ------------------------------------------------- lisa.validate, the marks
\* The first item, in list order, on which lisa.validate raises; 0 if none.
FirstInvalid(its) ==
    IF \A k \in DOMAIN its : its[k].valid = "ok" THEN 0
    ELSE CHOOSE k \in DOMAIN its :
            /\ its[k].valid # "ok"
            /\ \A j \in 1..(k - 1) : its[j].valid = "ok"

\* ------------------------------------------------------------- the matching
\* A criterion that matches when all its fields that are set match.
Matches_all(c, item) ==
    /\ TruthyStr(c.name) \/ TruthyStr(c.area) \/ TruthyStr(c.category)
          \/ TruthyStr(c.priority) \/ TruthyTags(c.tags)
    /\ TruthyStr(c.name) => IsSubstring(c.name, item.name)
    /\ TruthyStr(c.area) => casefold(c.area) = casefold(item.area)
    /\ TruthyStr(c.category) => casefold(c.category) = casefold(item.category)
    /\ TruthyStr(c.priority) => c.priority = item.priority
    /\ TruthyTags(c.tags) => c.tags \subseteq item.tags

\* The any([...]) of the hook: one entry per field of the criterion.
Matches(c, item) ==
    \/ TruthyStr(c.name) /\ IsSubstring(c.name, item.name)
    \/ TruthyStr(c.area) /\ casefold(c.area) = casefold(item.area)
    \/ TruthyStr(c.category) /\ casefold(c.category) = casefold(item.category)
    \/ TruthyStr(c.priority) /\ c.priority = item.priority
    \/ TruthyTags(c.tags) /\ c.tags \subseteq item.tags

\* Exclusion that takes the copies out of `included` on the spot.
RECURSIVE Without(_, _)
Without(s, x) ==
    IF s = <<>> THEN <<>>
    ELSE (IF Head(s) = x THEN <<>> ELSE <<Head(s)>>) \o Without(Tail(s), x)

select_eager(inc, exc, item, times, exclude) ==
    IF exclude
    THEN [inc |-> Without(inc, item), exc |-> exc]
    ELSE [inc |-> inc \o Repeat(item, times - Count(inc, item)), exc |-> exc]

\* `times` taken as an increment.
select_additive(inc, exc, item, times, exclude) ==
    IF exclude
    THEN [inc |-> inc, exc |-> Append(exc, item)]
    ELSE [inc |-> inc \o Repeat(item, times), exc |-> exc]

\* `times` taken as the count the last matching criterion sets.
select_last_wins(inc, exc, item, times, exclude) ==
    IF exclude
    THEN [inc |-> inc, exc |-> Append(exc, item)]
    ELSE [inc |-> Without(inc, item) \o Repeat(item, times), exc |-> exc]

\* select(item, times, exclude) on the two lists.
select(inc, exc, item, times, exclude) ==
    IF exclude
    THEN [inc |-> inc, exc |-> Append(exc, item)]
    ELSE [inc |-> inc \o Repeat(item, times - Count(inc, item)), exc |-> exc]

\* The loop `for item in items` for one criterion c, from item k on.
RECURSIVE ForItems(_, _, _, _, _)
ForItems(inc, exc, c, its, k) ==
    IF k > Len(its) THEN [inc |-> inc, exc |-> exc]
    ELSE IF ~its[k].marked THEN ForItems(inc, exc, c, its, k + 1)
    ELSE IF Matches(c, its[k])
         THEN LET r == select(inc, exc, its[k], c.times, c.exclude)
              IN  ForItems(r.inc, r.exc, c, its, k + 1)
         ELSE ForItems(inc, exc, c, its, k + 1)

\* The end of the hook without `if not included: included = items`.
FinalSelection_nofallback(inc, exc, its) == FilterOut(inc, exc)

\* A fallback that restores the tests with a marker only.
FinalSelection_marked(inc, exc, its) ==
    LET HasMarker(i) == i.marked
    IN  FilterOut(IF inc = <<>> THEN SelectSeq(its, HasMarker) ELSE inc, exc)

\* `if not included: included = items`, then the list comprehension.
FinalSelection(inc, exc, its) ==
    FilterOut(IF inc = <<>> THEN its ELSE inc, exc)

\* The loop `for c in book.get("criteria", [])`, from criterion k on.
RECURSIVE ForCriteria(_, _, _, _, _)
ForCriteria(inc, exc, cs, its, k) ==
    IF k > Len(cs) THEN [inc |-> inc, exc |-> exc]
    ELSE LET r == ForItems(inc, exc, cs[k], its, 1)
         IN  ForCriteria(r.inc, r.exc, cs, its, k + 1)

\* What the hook leaves in `items` when every mark validates.
Selection(its, cs) ==
    LET r == ForCriteria(<<>>, <<>>, cs, its, 1)
    IN  FinalSelection(r.inc, r.exc, its)

\* ------------------------------------------------------ targets, requests
\* playbook.PLATFORMS: the registry, from a platform's name to its class.
PlatformNames == {"Azure", "Local"}
PLATFORMS == [n \in PlatformNames |-> n]

\* The classes each class derives from.
Bases == [c \in PlatformNames |-> {"Target"}]

ParameterSets == { [image |-> "a"], [image |-> "b"] }
FeatureNames == {"gpu", "sriov"}

\* request.param of a test with the features of its marker.
Requests ==
    [platform : PlatformNames \cup {"Unregistered"},
     parameters : ParameterSets,
     features : SUBSET FeatureNames]

NoRequest == [platform |-> "", parameters |-> [image |-> ""], features |-> {}]
NoLast == [set |-> FALSE, req |-> NoRequest, id |-> 0, len |-> 0]

\* platform(parameters, features): a connected target.
NewTarget(n, cls, parameters, features) ==
    [id |-> n, cls |-> cls, parameters |-> parameters, features |-> features,
     conn |-> "open", attempts |-> 0, deleted |-> 0]

\* A test running against a target uses its connection.
Use(t) == [t EXCEPT !.conn = "open"]

isinstance(t, platform) == t.cls = platform \/ platform \in Bases[t.cls]

\* The scan with a strict superset, `>` for `>=`.
Fits_strict(t, platform, parameters, features) ==
    /\ isinstance(t, platform)
    /\ t.parameters = parameters
    /\ features \subseteq t.features /\ features # t.features

\* The condition of the scan of the pool.
Fits(t, platform, parameters, features) ==
    /\ isinstance(t, platform)
    /\ t.parameters = parameters
    /\ features \subseteq t.features

\* A scan that looks at the target deployed last only.
FirstFit_lastonly(pl, platform, parameters, features) ==
    IF pl # <<>> /\ Fits(pl[Len(pl)], platform, parameters, features)
    THEN Len(pl) ELSE 0

\* A scan that keeps the last target that fits.
FirstFit_last(pl, platform, parameters, features) ==
    IF \A k \in DOMAIN pl : ~Fits(pl[k], platform, parameters, features) THEN 0
    ELSE CHOOSE k \in DOMAIN pl :
            /\ Fits(pl[k], platform, parameters, features)
            /\ \A j \in (k + 1)..Len(pl) :
                  ~Fits(pl[j], platform, parameters, features)

\* The position the loop `for t in pool` breaks at; 0 when it runs to its else.
FirstFit(pl, platform, parameters, features) ==
    IF \A k \in DOMAIN pl : ~Fits(pl[k], platform, parameters, features) THEN 0
    ELSE CHOOSE k \in DOMAIN pl :
            /\ Fits(pl[k], platform, parameters, features)
            /\ \A j \in 1..(k - 1) : ~Fits(pl[j], platform, parameters, features)

\* The variables of the part that is not running.
PIdle ==
    /\ pool = <<>>
    /\ ppc = "off"
    /\ req = NoRequest
    /\ cur = 0
    /\ err = "none"
    /\ outcome = "none"
    /\ last = NoLast
    /\ keep = FALSE
    /\ nrun = 0
    /\ tdi = 0

\* The lists of the module before pytest_configure, and no test function yet.
GIdle ==
    /\ path = "None"
    /\ file = [targets |-> <<>>, criteria |-> <<>>]
    /\ TARGETS = <<>>
    /\ TARGET_IDS = <<>>
    /\ funcs = <<>>
    /\ gi = 0
    /\ gerr = {}

\* No thread is resolving a target.
TIdle == thr = <<>>

\* No criterion is being matched on its own.
MIdle ==
    /\ mc = <<>>
    /\ mitem = <<>>
    /\ mres = "off"

XIdle == GIdle /\ TIdle /\ MIdle

SIdle ==
    /\ items = <<>>
    /\ orig = <<>>
    /\ criteria = <<>>
    /\ included = <<>>
    /\ excluded = <<>>
    /\ ci = 0
    /\ spc = "off"
    /\ diag = 0

\* ------------------------------------------------- the hook, step by step
SInit ==
    /\ PIdle
    /\ XIdle
    /\ orig \in ItemLists
    /\ items = orig
    /\ criteria \in CriteriaLists
    /\ included = <<>>
    /\ excluded = <<>>
    /\ ci = 0
    /\ spc = "validate"
    /\ diag = 0

\* The loop that validates all LISA marks.
Validate ==
    /\ spc = "validate"
    /\ LET k == FirstInvalid(items) IN
         IF k = 0
         THEN /\ spc' = "criteria"
              /\ UNCHANGED <<items, diag>>
         ELSE IF items[k].valid = "SchemaMissingKeyError"
         THEN /\ diag' = items[k].id
              /\ items' = <<>>
              /\ spc' = "returned"
         ELSE \* any other exception leaves the hook
              /\ spc' = "raised"
              /\ UNCHANGED <<items, diag>>
    /\ UNCHANGED <<orig, criteria, included, excluded, ci>>
    /\ UNCHANGED notS

\* One round of `for c in book.get("criteria", [])`.
Criterion ==
    /\ spc = "criteria"
    /\ ci < Len(criteria)
    /\ LET r == ForItems(included, excluded, criteria[ci + 1], items, 1) IN
         /\ included' = r.inc
         /\ excluded' = r.exc
    /\ ci' = ci + 1
    /\ UNCHANGED <<items, orig, criteria, spc, diag>>
    /\ UNCHANGED notS

\* The end of the hook, after the last criterion.
Finalize ==
    /\ spc = "criteria"
    /\ ci = Len(criteria)
    /\ items' = FinalSelection(included, excluded, items)
    /\ included' = IF included = <<>> THEN items' ELSE included
    /\ spc' = "done"
    /\ UNCHANGED <<orig, criteria, excluded, ci, diag>>
    /\ UNCHANGED notS

SNext == Validate \/ Criterion \/ Finalize

SpecSelect == SInit /\ [][SNext]_vars

\* ------------------------------------------------ properties of the hook
MatchedBy(c, it) == it.marked /\ Matches(c, it)

\* The `times` of the include criteria that match the test.
IncTimes(it) ==
    { criteria[k].times :
        k \in { j \in DOMAIN criteria :
                  ~criteria[j].exclude /\ MatchedBy(criteria[j], it) } }

IsExcluded(it) ==
    \E k \in DOMAIN criteria : criteria[k].exclude /\ MatchedBy(criteria[k], it)

SetMax(S) == CHOOSE m \in S : \A n \in S : n <= m

FirstPos(s, x) == CHOOSE k \in DOMAIN s : s[k] = x /\ \A j \in 1..(k - 1) : s[j] # x

Contiguous(s, x) ==
    \A i, j \in DOMAIN s :
        (i < j /\ s[i] = x /\ s[j] = x) => \A m \in i..j : s[m] = x

\* The tests of s appear in the order of their first appearance in src.
SameFirstOrder(s, src) ==
    \A i, j \in DOMAIN s :
        (s[i] # s[j] /\ FirstPos(s, s[i]) < FirstPos(s, s[j]))
            => (InSeq(s[i], src) /\ InSeq(s[j], src)
                /\ FirstPos(src, s[i]) < FirstPos(src, s[j]))

\* A later include criterion asks for more copies than an earlier one gave.
ToppedUp(it) ==
    \E i, j \in DOMAIN criteria :
        /\ i < j
        /\ ~criteria[i].exclude /\ MatchedBy(criteria[i], it)
        /\ ~criteria[j].exclude /\ MatchedBy(criteria[j], it)
        /\ 0 < criteria[i].times
        /\ criteria[i].times < criteria[j].times

\* C2: a test with a marker that an exclude criterion matches has no copy in
\* the final selection, wherever the criterion stands and whatever the times.
C2_ExclusionDominance ==
    spc \in {"done", "returned"} =>
        \A k \in DOMAIN orig :
            (orig[k].marked /\ IsExcluded(orig[k])) => Count(items, orig[k]) = 0

\* A test included twice by the first criterion and excluded by the second,
\* beside a test that stays.
C2_Witness ==
    /\ spc = "done"
    /\ Len(criteria) = 2
    /\ ~criteria[1].exclude /\ criteria[1].times = 2 /\ criteria[2].exclude
    /\ items # <<>>
    /\ \E k \in DOMAIN orig :
          /\ MatchedBy(criteria[1], orig[k]) /\ MatchedBy(criteria[2], orig[k])
          /\ Count(included, orig[k]) = 2

\* C3: a test no exclude criterion matches, and that include criteria match
\* with a positive largest `times`, has exactly that many copies in the final
\* selection: times is a total, not an increment.
C3_TimesTopUp ==
    spc = "done" =>
        \A k \in DOMAIN orig :
            ( /\ orig[k].marked
              /\ ~IsExcluded(orig[k])
              /\ IncTimes(orig[k]) # {}
              /\ SetMax(IncTimes(orig[k])) > 0 )
            => Count(items, orig[k]) = SetMax(IncTimes(orig[k]))

\* times = 1 and then times = 2 on the same test: 2 copies.
C3_Witness ==
    /\ spc = "done"
    /\ Len(criteria) = 2
    /\ ~criteria[1].exclude /\ criteria[1].times = 1
    /\ ~criteria[2].exclude /\ criteria[2].times = 2
    /\ \E k \in DOMAIN orig :
          /\ MatchedBy(criteria[1], orig[k]) /\ MatchedBy(criteria[2], orig[k])
          /\ Count(items, orig[k]) = 2

\* The ids of a sequence of items go up strictly.
Ascending(s) == \A i, j \in DOMAIN s : i < j => s[i].id < s[j].id

\* C4: when the marks are valid and `included` is empty after the last
\* criterion, the final selection is the discovered list, in its order and each
\* test once, without the tests of `excluded`; with no criteria it is the
\* discovered list itself.
C4_FallbackToAll ==
    [][(spc = "criteria" /\ spc' = "done" /\ included = <<>>) =>
          /\ Ascending(items')
          /\ \A k \in DOMAIN orig :
                Count(items', orig[k]) = IF InSeq(orig[k], excluded) THEN 0 ELSE 1
          /\ \A k \in DOMAIN items' : InSeq(items'[k], orig)
          /\ (criteria = <<>> => items' = orig)]_vars

\* Only exclude criteria, one of which matched: the fallback with a removal.
C4_Witness ==
    /\ spc = "done"
    /\ criteria # <<>>
    /\ \A k \in DOMAIN criteria : criteria[k].exclude
    /\ excluded # <<>>
    /\ items # <<>>

C8_FailClosed ==
    (spc # "validate" /\ FirstInvalid(orig) # 0) =>
        /\ items = <<>>
        /\ included = <<>> /\ excluded = <<>> /\ ci = 0
        /\ diag = orig[FirstInvalid(orig)].id

\* C10 as stated: first-appearance order, and all copies of a test contiguous.
C10_ContiguousCopies ==
    [][(spc = "criteria" /\ spc' = "done") =>
          /\ SameFirstOrder(items', IF included = <<>> THEN orig ELSE included)
          /\ \A k \in DOMAIN orig : Contiguous(items', orig[k])]_vars

\* C10, amended: first-appearance order; the copies of a test are contiguous
\* when no later include criterion tops its count up.
C10_OrderOfFirstAppearance ==
    [][(spc = "criteria" /\ spc' = "done") =>
          /\ SameFirstOrder(items', IF included = <<>> THEN orig ELSE included)
          /\ \A k \in DOMAIN orig :
                ~ToppedUp(orig[k]) => Contiguous(items', orig[k])]_vars

\* Two tests with two copies each, the test discovered second included first.
C10_Witness ==
    /\ spc = "done"
    /\ Len(items) = 4
    /\ items[1] = items[2] /\ items[3] = items[4] /\ items[2] # items[3]
    /\ items[1].id > items[3].id

\* ------------------------------------------ the fixtures `target` and `pool`
PInit ==
    /\ SIdle
    /\ XIdle
    /\ pool = <<>>
    /\ ppc = "idle"
    /\ req = NoRequest
    /\ cur = 0
    /\ err = "none"
    /\ outcome = "none"
    /\ last = NoLast
    /\ keep \in BOOLEAN
    /\ nrun = 0
    /\ tdi = 0

\* The set-up with a default platform for a name the registry lacks.
target_setup_default(r) ==
    /\ ppc = "idle"
    /\ nrun < MaxTests
    /\ nrun' = nrun + 1
    /\ req' = r
    /\ LET platform == IF r.platform \in DOMAIN PLATFORMS
                        THEN PLATFORMS[r.platform] ELSE "Local"
           k == FirstFit(pool, platform, r.parameters, r.features)
       IN  /\ err' = "none"
           /\ ppc' = "running"
           /\ IF k # 0
              THEN /\ cur' = k
                   /\ UNCHANGED pool
              ELSE /\ pool' = Append(pool,
                          NewTarget(Len(pool) + 1, platform,
                                    r.parameters, r.features))
                   /\ cur' = Len(pool) + 1
    /\ UNCHANGED <<outcome, last, keep, tdi>>
    /\ UNCHANGED notP

\* The set-up with pool.insert(0, t) for pool.append(t).
target_setup_prepend(r) ==
    /\ ppc = "idle"
    /\ nrun < MaxTests
    /\ nrun' = nrun + 1
    /\ req' = r
    /\ IF r.platform \notin DOMAIN PLATFORMS
       THEN /\ err' = "ConfigurationError"
            /\ UNCHANGED <<pool, ppc, cur>>
       ELSE LET platform == PLATFORMS[r.platform]
                k == FirstFit(pool, platform, r.parameters, r.features)
            IN  /\ err' = "none"
                /\ ppc' = "running"
                /\ IF k # 0
                   THEN /\ cur' = k
                        /\ UNCHANGED pool
                   ELSE /\ pool' = <<NewTarget(Len(pool) + 1, platform,
                                               r.parameters, r.features)>>
                                   \o pool
                        /\ cur' = 1
    /\ UNCHANGED <<outcome, last, keep, tdi>>
    /\ UNCHANGED notP

\* The fixture `target` up to its yield, for a test with request r.
target_setup(r) ==
    /\ ppc = "idle"
    /\ nrun < MaxTests
    /\ nrun' = nrun + 1
    /\ req' = r
    /\ IF r.platform \notin DOMAIN PLATFORMS
       THEN \* the look-up in the registry raises
            /\ err' = "ConfigurationError"
            /\ UNCHANGED <<pool, ppc, cur>>
       ELSE LET platform == PLATFORMS[r.platform]
                k == FirstFit(pool, platform, r.parameters, r.features)
            IN  /\ err' = "none"
                /\ ppc' = "running"
                /\ IF k # 0
                   THEN /\ cur' = k
                        /\ UNCHANGED pool
                   ELSE /\ pool' = Append(pool,
                               NewTarget(Len(pool) + 1, platform,
                                         r.parameters, r.features))
                        /\ cur' = Len(pool) + 1
    /\ UNCHANGED <<outcome, last, keep, tdi>>
    /\ UNCHANGED notP

\* The same, when no target fits and the platform's constructor raises.
target_setup_raises(r) ==
    /\ ppc = "idle"
    /\ nrun < MaxTests
    /\ r.platform \in DOMAIN PLATFORMS
    /\ FirstFit(pool, PLATFORMS[r.platform], r.parameters, r.features) = 0
    /\ nrun' = nrun + 1
    /\ req' = r
    /\ err' = "ResourceError"
    /\ UNCHANGED <<pool, ppc, cur, outcome, last, keep, tdi>>
    /\ UNCHANGED notP

\* The test runs against the yielded target and ends one way or another.
test_body(o) ==
    /\ ppc = "running"
    /\ pool' = [pool EXCEPT ![cur] = Use(pool[cur])]
    /\ outcome' = o
    /\ ppc' = "ended"
    /\ UNCHANGED <<req, cur, err, last, keep, nrun, tdi>>
    /\ UNCHANGED notP

\* A teardown that closes the connection only after a test that passed.
target_teardown_on_pass ==
    /\ ppc = "ended"
    /\ pool' = IF outcome = "passed"
               THEN [pool EXCEPT ![cur].conn = "closed"] ELSE pool
    /\ last' = [set |-> TRUE, req |-> req, id |-> pool[cur].id, len |-> Len(pool)]
    /\ ppc' = "idle"
    /\ UNCHANGED <<req, cur, err, outcome, keep, nrun, tdi>>
    /\ UNCHANGED notP

\* The fixture `target` after its yield.
target_teardown ==
    /\ ppc = "ended"
    /\ pool' = [pool EXCEPT ![cur].conn = "closed"]
    /\ last' = [set |-> TRUE, req |-> req, id |-> pool[cur].id, len |-> Len(pool)]
    /\ ppc' = "idle"
    /\ UNCHANGED <<req, cur, err, outcome, keep, nrun, tdi>>
    /\ UNCHANGED notP

\* The session ends: the fixture `pool` goes on after its yield.
pool_teardown_begin ==
    /\ ppc = "idle"
    /\ ppc' = "pool_teardown"
    /\ tdi' = 1
    /\ UNCHANGED <<pool, req, cur, err, outcome, last, keep, nrun>>
    /\ UNCHANGED notP

\* The round without the test of --keep-vms.
pool_teardown_step_nokeep ==
    /\ ppc = "pool_teardown"
    /\ tdi <= Len(pool)
    /\ pool' = [pool EXCEPT ![tdi].attempts = @ + 1, ![tdi].deleted = @ + 1]
    /\ tdi' = tdi + 1
    /\ UNCHANGED <<ppc, req, cur, err, outcome, last, keep, nrun>>
    /\ UNCHANGED notP

\* One round of `for t in targets`; t.delete() returns.
pool_teardown_step ==
    /\ ppc = "pool_teardown"
    /\ tdi <= Len(pool)
    /\ pool' = IF keep THEN pool
               ELSE [pool EXCEPT ![tdi].attempts = @ + 1, ![tdi].deleted = @ + 1]
    /\ tdi' = tdi + 1
    /\ UNCHANGED <<ppc, req, cur, err, outcome, last, keep, nrun>>
    /\ UNCHANGED notP

\* One round of `for t in targets`; t.delete() raises, and nothing catches it.
pool_teardown_raises ==
    /\ ppc = "pool_teardown"
    /\ tdi <= Len(pool)
    /\ ~keep
    /\ pool' = [pool EXCEPT ![tdi].attempts = @ + 1]
    /\ ppc' = "aborted"
    /\ err' = "ResourceError"
    /\ UNCHANGED <<req, cur, outcome, last, keep, nrun, tdi>>
    /\ UNCHANGED notP

\* The loop is over.
pool_teardown_end ==
    /\ ppc = "pool_teardown"
    /\ tdi > Len(pool)
    /\ ppc' = "finished"
    /\ UNCHANGED <<pool, req, cur, err, outcome, last, keep, nrun, tdi>>
    /\ UNCHANGED notP

Outcomes == {"passed", "failed", "error"}

PNext ==
    \/ \E r \in Requests : target_setup(r)
    \/ \E r \in Requests : target_setup_raises(r)
    \/ \E o \in Outcomes : test_body(o)
    \/ target_teardown
    \/ pool_teardown_begin
    \/ pool_teardown_step
    \/ pool_teardown_raises
    \/ pool_teardown_end

SpecPool == PInit /\ [][PNext]_vars

\* --------------------------------------------- properties of the fixtures
Between == {"idle", "pool_teardown", "finished", "aborted"}

\* C1: a request resolved right after the same request gets the same target,
\* and the pool is as long as it was after the first of the two.
C1_IdempotentReuse ==
    (ppc = "running" /\ last.set /\ last.req = req) =>
        /\ pool[cur].id = last.id
        /\ Len(pool) = last.len

\* The same request twice, the first of which created the second target of
\* the pool.
C1_Witness ==
    /\ ppc = "running"
    /\ last.set /\ last.req = req
    /\ nrun = 3
    /\ Len(pool) = 2 /\ cur = 2

\* C6: between tests no connection is open, and the target of the last test,
\* however the test ended, is in the pool with its connection closed.
C6_ConnectionPerTest ==
    ppc \in Between =>
        /\ \A k \in DOMAIN pool : pool[k].conn = "closed"
        /\ last.set =>
              \E k \in DOMAIN pool :
                  pool[k].id = last.id /\ pool[k].conn = "closed"

\* A second test on a reused target ended in an error, and its teardown ran.
C6_Witness ==
    /\ ppc = "idle"
    /\ last.set
    /\ outcome = "error"
    /\ nrun = 2 /\ Len(pool) = 1 /\ err = "none"

\* C7: after the teardown of the pool without --keep-vms, delete was called
\* on every target of the pool.
C7_BestEffortTeardown ==
    (ppc \in {"finished", "aborted"} /\ ~keep) =>
        \A k \in DOMAIN pool : pool[k].attempts >= 1

C11_NoRedundantTarget ==
    [][Len(pool') > Len(pool) =>
          \A k \in DOMAIN pool :
              ( /\ pool[k].cls = pool'[Len(pool')].cls
                /\ pool[k].parameters = pool'[Len(pool')].parameters )
              => ~(req'.features \subseteq pool[k].features)]_vars

\* Two targets of one platform with the same parameters.
C11_Witness ==
    /\ Len(pool) = 2
    /\ pool[1].cls = pool[2].cls
    /\ pool[1].parameters = pool[2].parameters
    /\ ppc = "running" /\ cur = 2

\* C16: resolve yields the first target of the pool, in insertion order, of
\* the requested platform, with the requested parameters and with at least
\* the required features; it appends a new target, at the end, only when the
\* pool has none.
C16_FirstFit ==
    [][(nrun' # nrun /\ ppc' = "running") =>
          LET Sat(u) == /\ u.cls = PLATFORMS[req'.platform]
                        /\ u.parameters = req'.parameters
                        /\ req'.features \subseteq u.features
          IN  /\ Sat(pool'[cur'])
              /\ IF \E k \in DOMAIN pool : Sat(pool[k])
                 THEN /\ pool' = pool
                      /\ \A j \in 1..(cur' - 1) : ~Sat(pool[j])
                 ELSE /\ cur' = Len(pool) + 1
                      /\ Len(pool') = Len(pool) + 1
                      /\ SubSeq(pool', 1, Len(pool)) = pool]_vars

\* The first of two targets that both fit the request is yielded.
C16_Witness ==
    /\ ppc = "running"
    /\ cur = 1
    /\ Len(pool) = 2
    /\ pool[2].cls = PLATFORMS[req.platform]
    /\ pool[2].parameters = req.parameters
    /\ req.features \subseteq pool[2].features

\* C18: delete is called on no target before the teardown of the pool; after
\* a teardown in which no delete raised, it was called once on every target
\* without --keep-vms, and on none with it.
C18_TargetLifecycle ==
    /\ ppc \in {"idle", "running", "ended"} =>
          \A k \in DOMAIN pool : pool[k].attempts = 0 /\ pool[k].deleted = 0
    /\ ppc = "finished" =>
          \A k \in DOMAIN pool :
              /\ pool[k].deleted = IF keep THEN 0 ELSE 1
              /\ pool[k].attempts = pool[k].deleted

\* The teardown of a pool of two targets.
C18_Witness ==
    /\ ppc = "finished"
    /\ ~keep
    /\ Len(pool) = 2

\* C19: resolve leaves the pool as it is, or adds one target at its end with
\* the parameters and the features of the request.
C19_AppendOnly ==
    [][nrun' # nrun =>
          \/ pool' = pool
          \/ /\ Len(pool') = Len(pool) + 1
             /\ SubSeq(pool', 1, Len(pool)) = pool
             /\ pool'[Len(pool')].parameters = req'.parameters
             /\ pool'[Len(pool')].features = req'.features]_vars

\* A target appended to a pool that holds one.
C19_Witness ==
    /\ ppc = "running"
    /\ nrun = 2
    /\ Len(pool) = 2 /\ cur = 2
    /\ pool[2].features = req.features

\* C13 as stated: a test with a marker that is not in the final selection is
\* in `excluded`.
C13_NoSilentDrop ==
    spc = "done" =>
        \A k \in DOMAIN orig :
            (orig[k].marked /\ ~InSeq(orig[k], items))
                => InSeq(orig[k], excluded)

\* C13, amended: a test that is not in the final selection is in `excluded`,
\* or `included` was not empty and had no copy of it: the test has no marker,
\* or no include criterion matched it with a positive `times`.
C13_AccountedDrop ==
    [][(spc = "criteria" /\ spc' = "done") =>
          \A k \in DOMAIN orig :
              ~InSeq(orig[k], items') =>
                  \/ InSeq(orig[k], excluded)
                  \/ /\ included # <<>>
                     /\ ~InSeq(orig[k], included)
                     /\ \/ ~orig[k].marked
                        \/ IncTimes(orig[k]) = {}
                        \/ SetMax(IncTimes(orig[k])) <= 0]_vars

\* A test with a marker that no criterion matched, dropped beside a test that
\* was included.
C13_Witness ==
    /\ spc = "done"
    /\ items # <<>>
    /\ \E k \in DOMAIN orig :
          /\ orig[k].marked
          /\ \A j \in DOMAIN criteria : ~MatchedBy(criteria[j], orig[k])
          /\ ~InSeq(orig[k], items)
          /\ ~InSeq(orig[k], excluded)

\* C14: a test that include criteria matched has, in the final selection, at
\* most as many copies as the largest `times` among them.
C14_NoOverDuplication ==
    spc = "done" =>
        \A k \in DOMAIN orig :
            (orig[k].marked /\ IncTimes(orig[k]) # {})
                => Count(items, orig[k]) <= SetMax(IncTimes(orig[k]))

\* The orders the criteria of a list can be written in.
Reorderings(cs) ==
    { [i \in DOMAIN cs |-> cs[f[i]]] :
        f \in { g \in [DOMAIN cs -> DOMAIN cs] :
                  \A i, j \in DOMAIN cs : i # j => g[i] # g[j] } }

\* C20: with the criteria in any other order the hook selects each test as
\* many times as it did.
C20_OrderOfCriteria ==
    [][(spc = "criteria" /\ spc' = "done") =>
          \A cs \in Reorderings(criteria) :
              LET sel == Selection(orig, cs)
              IN  \A k \in DOMAIN orig :
                      Count(sel, orig[k]) = Count(items', orig[k])]_vars

\* Two include criteria with different `times` on one test, and another test.
C20_Witness ==
    /\ spc = "done"
    /\ Len(criteria) = 2
    /\ ~criteria[1].exclude /\ criteria[1].times = 2
    /\ ~criteria[2].exclude /\ criteria[2].times = 1
    /\ Len(orig) = 2
    /\ MatchedBy(criteria[1], orig[1]) /\ MatchedBy(criteria[2], orig[1])
    /\ Count(items, orig[1]) = 2
    /\ Count(items, orig[2]) = 1

\* ------------------------------------------- one criterion against one test
\* The values a field of a criterion takes: absent (None), empty, or a value.
MNames == {NoneStr, <<>>, <<"b">>, <<"a", "b">>, <<"B">>, <<"b", "a">>}
MAreas == {NoneStr, <<>>, <<"N", "E", "T">>, <<"n", "e", "t">>, <<"d", "s", "k">>}
MCategories == {NoneStr, <<>>, <<"f">>, <<"F">>, <<"x">>}
MPriorities == {NoneStr, <<>>, <<"1">>, <<"2">>}
MTags == {NoneTags, {}, {"slow"}, {"slow", "fast"}, {"fast"}}

MCriteria ==
    [name : MNames, area : MAreas, category : MCategories,
     priority : MPriorities, tags : MTags, times : {1}, exclude : {FALSE}]

\* The tests with a marker that validates.
MItems ==
    { MkItem(1, k) : k \in { i \in ItemKinds : i.marked /\ i.valid = "ok" } }

MInit ==
    /\ SIdle
    /\ PIdle
    /\ GIdle
    /\ TIdle
    /\ mc \in MCriteria
    /\ mitem \in MItems
    /\ mres = "pending"

\* The any([...]) of the hook on the criterion and the test.
match_criterion ==
    /\ mres = "pending"
    /\ mres' = IF Matches(mc, mitem) THEN "True" ELSE "False"
    /\ UNCHANGED <<mc, mitem>>
    /\ UNCHANGED <<svars, pvars, gvars, thr>>

MNext == match_criterion

SpecMatch == MInit /\ [][MNext]_vars

\* A field of a criterion that is neither absent nor empty.
NonEmptyStr(x) == x # NoneStr /\ Len(x) > 0
NonEmptyTags(x) == x # NoneTags /\ Cardinality(x) > 0

\* a occurs in b: b is some prefix, then a, then some suffix.
OccursIn(a, b) ==
    \E i, j \in 0..Len(b) :
        /\ i <= j
        /\ j - i = Len(a)
        /\ \A k \in 1..Len(a) : b[i + k] = a[k]

\* a and b are the same up to the case of their letters.
SameIgnoringCase(a, b) ==
    /\ Len(a) = Len(b)
    /\ \A k \in 1..Len(a) : Lower(a[k]) = Lower(b[k])

\* The condition of each field of the criterion, on the test.
NameHolds == NonEmptyStr(mc.name) /\ OccursIn(mc.name, mitem.name)
AreaHolds == NonEmptyStr(mc.area) /\ SameIgnoringCase(mc.area, mitem.area)
CategoryHolds ==
    NonEmptyStr(mc.category) /\ SameIgnoringCase(mc.category, mitem.category)
PriorityHolds == NonEmptyStr(mc.priority) /\ mc.priority = mitem.priority
TagsHolds == NonEmptyTags(mc.tags) /\ \A t \in mc.tags : t \in mitem.tags

\* C17: a criterion matches a test with a marker iff the condition of at
\* least one of its non-empty fields holds; a criterion with no non-empty
\* field matches nothing, and a field that fails does not undo the match of
\* another.
C17_AnyOfMatching ==
    mres \in {"True", "False"} =>
        /\ mres = "True" <=>
              (NameHolds \/ AreaHolds \/ CategoryHolds \/ PriorityHolds
                  \/ TagsHolds)
        /\ ( /\ ~NonEmptyStr(mc.name) /\ ~NonEmptyStr(mc.area)
             /\ ~NonEmptyStr(mc.category) /\ ~NonEmptyStr(mc.priority)
             /\ ~NonEmptyTags(mc.tags) ) => mres = "False"

\* The name matches although the area, the priority and the tags do not.
C17_Witness ==
    /\ mres = "True"
    /\ NameHolds
    /\ NonEmptyStr(mc.area) /\ ~AreaHolds
    /\ NonEmptyStr(mc.priority) /\ ~PriorityHolds
    /\ NonEmptyTags(mc.tags) /\ ~TagsHolds

\* ------------------------------------- configuration and parametrization
\* playbook.schema.validate({}): the document of a run without a playbook.
EmptyBook == [targets |-> <<>>, criteria |-> <<>>]

\* The targets a playbook file lists.
BookTargets ==
    << [name |-> <<"t">>, platform |-> "Azure", parameters |-> [image |-> "a"]],
       [name |-> <<"u">>, platform |-> "Local", parameters |-> [image |-> "b"]] >>

\* The validated documents of the playbook files.
Books ==
    [targets : {SubSeq(BookTargets, 1, n) : n \in 0..Len(BookTargets)},
     criteria : {<<>>} \cup {<<c>> : c \in Criteria}]

\* A test function pytest discovers: what its item carries, and the fixtures
\* it asks for.
Funcs == [kind : ItemKinds, fixturenames : {{}, {"target"}}]
FuncLists == UNION { [1..len -> Funcs] : len \in 0..MaxItems }

\* get_playbook(path), file being the validated document of the file at path.
get_playbook(p, f) == IF p # "None" THEN f ELSE EmptyBook

\* The items metafunc.parametrize gives function f: one for each id.
RECURSIVE Parametrized(_, _, _, _)
Parametrized(f, ids, k, n) ==
    IF k > Len(ids) THEN <<>>
    ELSE <<MkItem(n + k, [f.kind EXCEPT
                            !.name = @ \o <<"[">> \o ids[k] \o <<"]">>])>>
         \o Parametrized(f, ids, k + 1, n)

CInit ==
    /\ PIdle
    /\ TIdle
    /\ MIdle
    /\ path \in {"None", "playbook.yaml"}
    /\ file \in Books
    /\ path = "None" => file = EmptyBook
    /\ funcs \in FuncLists
    /\ TARGETS = <<>>
    /\ TARGET_IDS = <<>>
    /\ gi = 0
    /\ gerr = {}
    /\ items = <<>>
    /\ orig = <<>>
    /\ criteria = <<>>
    /\ included = <<>>
    /\ excluded = <<>>
    /\ ci = 0
    /\ spc = "configure"
    /\ diag = 0

\* pytest_configure: the targets of the playbook go to TARGETS and TARGET_IDS.
pytest_configure ==
    /\ spc = "configure"
    /\ LET book == get_playbook(path, file) IN
         /\ TARGETS' = TARGETS \o book.targets
         /\ TARGET_IDS' = TARGET_IDS
                \o [k \in DOMAIN book.targets |-> book.targets[k].name]
    /\ spc' = "generate"
    /\ UNCHANGED <<path, file, funcs, gi, gerr>>
    /\ UNCHANGED <<items, orig, criteria, included, excluded, ci, diag>>
    /\ UNCHANGED <<pvars, thr, mvars>>

\* pytest_generate_tests for the next test function.
pytest_generate_tests ==
    /\ spc = "generate"
    /\ gi < Len(funcs)
    /\ gi' = gi + 1
    /\ LET f == funcs[gi + 1] IN
         IF "target" \in f.fixturenames
         THEN IF TARGETS = <<>>
              THEN \* assert TARGETS, "No targets specified!"
                   /\ gerr' = gerr \cup {gi + 1}
                   /\ UNCHANGED items
              ELSE /\ items' = items \o Parametrized(f, TARGET_IDS, 1, Len(items))
                   /\ UNCHANGED gerr
         ELSE /\ items' = Append(items, MkItem(Len(items) + 1, f.kind))
              /\ UNCHANGED gerr
    /\ UNCHANGED <<path, file, TARGETS, TARGET_IDS, funcs>>
    /\ UNCHANGED <<orig, criteria, included, excluded, ci, spc, diag>>
    /\ UNCHANGED <<pvars, thr, mvars>>

\* The collection is over: pytest calls the hook with the items collected.
collection_modifyitems_begin ==
    /\ spc = "generate"
    /\ gi = Len(funcs)
    /\ orig' = items
    /\ criteria' = get_playbook(path, file).criteria
    /\ spc' = "validate"
    /\ UNCHANGED <<items, included, excluded, ci, diag>>
    /\ UNCHANGED <<pvars, gvars, thr, mvars>>

CNext ==
    \/ pytest_configure
    \/ pytest_generate_tests
    \/ collection_modifyitems_begin
    \/ Validate
    \/ Criterion
    \/ Finalize

SpecCollect == CInit /\ [][CNext]_vars

\* C12: without a playbook the document is empty, no parametrization raises,
\* and, the marks being valid, the hook ends with one item for every test
\* function discovered, those that ask for `target` included.
C12_NoPlaybookTolerated ==
    path = "None" =>
        /\ spc # "configure" => (TARGETS = <<>> /\ TARGET_IDS = <<>>)
        /\ gerr = {}
        /\ spc = "done" =>
              /\ criteria = <<>>
              /\ Len(items) = Len(funcs)
              /\ \A k \in DOMAIN funcs : items[k].name = funcs[k].kind.name

\* ----------------------------------------- tests resolving on two threads
\* The threads of a host that runs tests in parallel against one pool.
Threads == {1, 2}

\* A thread outside the fixture `target`.
NoLocals == [pc |-> "idle", req |-> NoRequest, n |-> 0, i |-> 0, cur |-> 0,
             t |-> NewTarget(0, "", [image |-> ""], {})]

TInit ==
    /\ SIdle
    /\ GIdle
    /\ MIdle
    /\ pool = <<>>
    /\ ppc = "idle"
    /\ req = NoRequest
    /\ cur = 0
    /\ err = "none"
    /\ outcome = "none"
    /\ last = NoLast
    /\ keep = FALSE
    /\ nrun = 0
    /\ tdi = 0
    /\ thr = [th \in Threads |-> NoLocals]

\* The fixture `target` starts on thread th for a test with request r: the
\* look-up of the platform, the parameters, the features, and iter(pool).
thread_begin(th, r) ==
    /\ thr[th].pc = "idle"
    /\ nrun < MaxTests
    /\ nrun' = nrun + 1
    /\ thr' = [thr EXCEPT ![th] =
                 IF r.platform \notin DOMAIN PLATFORMS
                 THEN \* the look-up raises: the fixture is left at once
                      [NoLocals EXCEPT !.req = r]
                 ELSE [NoLocals EXCEPT !.pc = "scan", !.req = r,
                                       !.n = nrun + 1]]
    /\ UNCHANGED <<pool, ppc, req, cur, err, outcome, last, keep, tdi>>
    /\ UNCHANGED <<svars, gvars, mvars>>

\* One round of `for t in pool` on thread th: the next element of the list
\* as it is now, or the else of the loop when there is none.
thread_scan(th) ==
    /\ thr[th].pc = "scan"
    /\ LET l == thr[th] IN
         thr' = [thr EXCEPT ![th] =
                   IF l.i < Len(pool)
                   THEN IF Fits(pool[l.i + 1], PLATFORMS[l.req.platform],
                                l.req.parameters, l.req.features)
                        THEN [l EXCEPT !.pc = "running", !.cur = l.i + 1]
                        ELSE [l EXCEPT !.i = l.i + 1]
                   ELSE [l EXCEPT !.pc = "construct"]]
    /\ UNCHANGED pvars
    /\ UNCHANGED <<svars, gvars, mvars>>

\* t = platform(parameters, features) on thread th.
thread_construct(th) ==
    /\ thr[th].pc = "construct"
    /\ LET l == thr[th] IN
         thr' = [thr EXCEPT ![th] =
                   [l EXCEPT !.pc = "append",
                             !.t = NewTarget(l.n, PLATFORMS[l.req.platform],
                                             l.req.parameters, l.req.features)]]
    /\ UNCHANGED pvars
    /\ UNCHANGED <<svars, gvars, mvars>>

\* pool.append(t); yield t on thread th.
thread_append(th) ==
    /\ thr[th].pc = "append"
    /\ pool' = Append(pool, thr[th].t)
    /\ thr' = [thr EXCEPT ![th].pc = "running", ![th].cur = Len(pool) + 1]
    /\ UNCHANGED <<ppc, req, cur, err, outcome, last, keep, nrun, tdi>>
    /\ UNCHANGED <<svars, gvars, mvars>>

\* The test of thread th ends, and the fixture closes the connection.
thread_teardown(th) ==
    /\ thr[th].pc = "running"
    /\ pool' = [pool EXCEPT ![thr[th].cur].conn = "closed"]
    /\ thr' = [thr EXCEPT ![th].pc = "idle"]
    /\ UNCHANGED <<ppc, req, cur, err, outcome, last, keep, nrun, tdi>>
    /\ UNCHANGED <<svars, gvars, mvars>>

TNext ==
    \E th \in Threads :
        \/ \E r \in Requests : thread_begin(th, r)
        \/ thread_scan(th)
        \/ thread_construct(th)
        \/ thread_append(th)
        \/ thread_teardown(th)

SpecThreads == TInit /\ [][TNext]_vars

\* C15: whatever the interleaving of the threads, the pool never holds two
\* targets of the same platform with the same parameters and the same
\* features, that is two targets allocated for one request.
C15_MutualExclusion ==
    \A i, j \in DOMAIN pool :
        i < j =>
            ~( /\ pool[i].cls = pool[j].cls
               /\ pool[i].parameters = pool[j].parameters
               /\ pool[i].features = pool[j].features )

====
